---- MODULE Spec2Model ----
(***************************************************************************)
(* Streaming transcoder of anthropic-proxy: the component-split handler    *)
(* (StreamingResponseHandler, StreamStateManager, BufferManager,           *)
(* ContentProcessor, SSEMessageBuilder) driven by handleStreamingResponse. *)
(*                                                                         *)
(* Strings are sequences of characters.  A character is a one-character    *)
(* string, except for the pieces of JSON syntax that the handler never     *)
(* looks into, which are single tokens:                                    *)
(*   "{content:"   {"choices":[{"delta":{"content":"      (opens a string) *)
(*   "{reasoning:" {"choices":[{"delta":{"reasoning":"                     *)
(*   "{tool0:"     {"choices":[{"delta":{"tool_calls":[{"index":0,         *)
(*                  "id":"t0","function":{"name":"f0","arguments":"        *)
(*   "{tool1:"     the same for index 1                                    *)
(*   "}"           the closing quote and brackets of any of the above      *)
(*   "{usage:2}" "{usage:0}" "{tool_calls:[]}" "{error}" "{error:UT}"      *)
(*                 complete JSON objects without a string body             *)
(*   "[DONE]"      the end-of-stream sentinel                              *)
(*   "a^50000"     a run of 50000 letters a                                *)
(* The backend body is a sequence of bytes; a byte is the character it     *)
(* encodes, except for the two bytes "0xC3" "0xA9" of the character        *)
(* "U+00E9".                                                               *)
(***************************************************************************)
EXTENDS Integers, Sequences, FiniteSets, TLC

\* ---------------------------------------------------------------- bounds
MaxFrames == 3      \* frames in one backend body
MaxElapsed == 5001  \* milliseconds of wall-clock time that may pass during one request

\* ------------------------------------------------------ program constants
maxBufferSize == 50000
bufferTimeoutMs == 5000

INITIALIZING == "initializing"
STREAMING == "streaming"
FINALIZING == "finalizing"
COMPLETED == "completed"
ERROR == "error"
StreamingStates == {INITIALIZING, STREAMING, FINALIZING, COMPLETED, ERROR}

\* ------------------------------------------------------------ characters
DataPrefix == <<"d", "a", "t", "a", ":">>
Sentinel == <<"[DONE]">>
OpenAtoms == {"{content:", "{reasoning:", "{tool0:", "{tool1:"}
CloseAtom == "}"
WholeAtoms ==
  {"{usage:2}", "{usage:0}", "{tool_calls:[]}", "{error}", "{error:UT}",
   "{tool_calls:[],content:a}", "{content:a,reasoning:b}", "{tool0:a,content:a}"}
IsWhitespace(c) == c \in {" ", "\n"}
\* characters that may stand inside a JSON string literal
IsTextChar(c) == c \notin OpenAtoms \cup WholeAtoms \cup {CloseAtom, "\n", "[DONE]"}

\* String.prototype.length of one token
Width(c) ==
  CASE c = "{content:" -> 33
    [] c = "{reasoning:" -> 35
    [] c \in {"{tool0:", "{tool1:"} -> 95
    [] c = CloseAtom -> 5
    [] c = "{usage:2}" -> 32
    [] c = "{usage:0}" -> 32
    [] c = "{tool_calls:[]}" -> 40
    [] c = "{error}" -> 28
    [] c = "{error:UT}" -> 40
    [] c = "[DONE]" -> 6
    [] c = "a^50000" -> 50000
    [] OTHER -> 1

RECURSIVE JsLength(_)
JsLength(str) == IF str = <<>> THEN 0 ELSE Width(Head(str)) + JsLength(Tail(str))

RECURSIVE TrimLeft(_)
TrimLeft(str) ==
  IF str # <<>> /\ IsWhitespace(Head(str)) THEN TrimLeft(Tail(str)) ELSE str

RECURSIVE TrimRight(_)
TrimRight(str) ==
  IF str # <<>> /\ IsWhitespace(str[Len(str)])
  THEN TrimRight(SubSeq(str, 1, Len(str) - 1)) ELSE str

trim(str) == TrimRight(TrimLeft(str))

startsWithAnything(str) == Len(str) >= 0

startsWithData(str) == Len(str) >= 5 /\ SubSeq(str, 1, 5) = DataPrefix

RECURSIVE Concat(_)
Concat(seqs) == IF seqs = <<>> THEN <<>> ELSE Head(seqs) \o Concat(Tail(seqs))

\* ------------------------------------------------- TextDecoder.decode
\* decode(value) without {stream: true}: every chunk is decoded on its own;
\* an incomplete or orphaned part of a multi-byte sequence becomes U+FFFD.
RECURSIVE decode(_)
decode(bytes) ==
  IF bytes = <<>> THEN <<>>
  ELSE IF Head(bytes) = "0xC3"
       THEN IF Len(bytes) >= 2 /\ bytes[2] = "0xA9"
            THEN <<"U+00E9">> \o decode(SubSeq(bytes, 3, Len(bytes)))
            ELSE <<"U+FFFD">> \o decode(Tail(bytes))
       ELSE IF Head(bytes) = "0xA9"
            THEN <<"U+FFFD">> \o decode(Tail(bytes))
            ELSE <<Head(bytes)>> \o decode(Tail(bytes))

\* ------------------------------------------------------------ JSON.parse
NoPayload ==
  [error |-> "none", usage |-> -1, hasDelta |-> FALSE, hasToolCalls |-> FALSE,
   tool_calls |-> <<>>, content |-> <<>>, reasoning |-> <<>>]

ToolCall(i, args) == [index |-> i, arguments |-> args]

\* the object a complete payload denotes
WholePayload(c) ==
  CASE c = "{usage:2}" -> [NoPayload EXCEPT !.usage = 2]
    [] c = "{usage:0}" -> [NoPayload EXCEPT !.usage = 0]
    [] c = "{tool_calls:[]}" -> [NoPayload EXCEPT !.hasDelta = TRUE, !.hasToolCalls = TRUE]
    [] c = "{error}" -> [NoPayload EXCEPT !.error = "upstream failure"]
    [] c = "{error:UT}" -> [NoPayload EXCEPT !.error = "Unexpected token"]
    [] c = "{tool_calls:[],content:a}" ->
         [NoPayload EXCEPT !.hasDelta = TRUE, !.hasToolCalls = TRUE, !.content = <<"a">>]
    [] c = "{content:a,reasoning:b}" ->
         [NoPayload EXCEPT !.hasDelta = TRUE, !.content = <<"a">>, !.reasoning = <<"b">>]
    [] c = "{tool0:a,content:a}" ->
         [NoPayload EXCEPT !.hasDelta = TRUE, !.hasToolCalls = TRUE,
                           !.tool_calls = <<[index |-> 0, arguments |-> <<"a">>]>>,
                           !.content = <<"a">>]

StringPayload(open, text) ==
  CASE open = "{content:" -> [NoPayload EXCEPT !.hasDelta = TRUE, !.content = text]
    [] open = "{reasoning:" -> [NoPayload EXCEPT !.hasDelta = TRUE, !.reasoning = text]
    [] open = "{tool0:" ->
         [NoPayload EXCEPT !.hasDelta = TRUE, !.hasToolCalls = TRUE,
                           !.tool_calls = <<ToolCall(0, text)>>]
    [] open = "{tool1:" ->
         [NoPayload EXCEPT !.hasDelta = TRUE, !.hasToolCalls = TRUE,
                           !.tool_calls = <<ToolCall(1, text)>>]

\* index of the first character after position 1 that ends the string literal, 0 if none
RECURSIVE StringEnd(_, _)
StringEnd(str, i) ==
  IF i > Len(str) THEN 0
  ELSE IF IsTextChar(str[i]) THEN StringEnd(str, i + 1) ELSE i

ParseOk(v) == [ok |-> TRUE, val |-> v, err |-> "none"]
ParseErr(m) == [ok |-> FALSE, val |-> NoPayload, err |-> m]

\* The result of JSON.parse: the object, or the class of the SyntaxError message.
\* "engine-dependent" stands for the failures whose message differs between V8
\* releases ("Unexpected token ..." in older ones, "Unexpected non-whitespace
\* character after JSON" / "Expected ',' or '}'" in newer ones).
JSONparse(text) ==
  LET str == trim(text) IN
  IF str = <<>> THEN ParseErr("Unexpected end of JSON input")
  ELSE IF Head(str) \in WholeAtoms
       THEN IF Len(str) = 1 THEN ParseOk(WholePayload(Head(str)))
            ELSE ParseErr("engine-dependent")
  ELSE IF Head(str) \in OpenAtoms
       THEN LET j == StringEnd(str, 2) IN
            IF j = 0 THEN ParseErr("Unterminated string")
            ELSE IF str[j] = CloseAtom /\ j = Len(str)
                 THEN ParseOk(StringPayload(Head(str), SubSeq(str, 2, j - 1)))
                 ELSE ParseErr("engine-dependent")
  ELSE IF Head(str) = CloseAtom
       THEN IF StringEnd(str, 2) = 0 THEN ParseErr("Unterminated string")
            ELSE ParseErr("engine-dependent")
  ELSE ParseErr("Unexpected token")

\* isRecoverableJsonError(error): matches the text of error.message
isRecoverableJsonError(message, engine) ==
  \/ message \in {"Unterminated string", "Unexpected end of JSON input", "Unexpected token"}
  \/ message = "engine-dependent" /\ engine = "legacy"

\* ------------------------------------------------------- request session
NoError == [type |-> "none", message |-> "none", state |-> "none", keys |-> {}, buffer |-> <<>>]

ProxyError(type, message, state, keys, buffer) ==
  [type |-> type, message |-> message, state |-> state, keys |-> keys, buffer |-> buffer]

ToolIndexes == {0, 1}

\* new StreamingResponseHandler(reply, model, logger) with its four components,
\* the reply it writes to, and the history the properties below are stated over
NewHandler(t) ==
  [ \* StreamStateManager
    state |-> INITIALIZING, isSucceeded |-> FALSE,
    \* BufferManager
    lineBuffer |-> <<>>, jsonBuffer |-> <<>>, isBuffering |-> FALSE, bufferStartTime |-> 0,
    \* ContentProcessor
    textBlockStarted |-> FALSE, encounteredToolCall |-> FALSE, toolCallAccumulators |-> <<>>,
    accumulatedContent |-> <<>>, accumulatedReasoning |-> <<>>,
    \* StreamingResponseHandler
    usage |-> -1,
    \* reply.raw and its socket; reply.code() and the body Fastify sends (0: none)
    out |-> <<>>, writeHeadCalls |-> 0, headersSent |-> FALSE, endCalls |-> 0,
    explicitHeaders |-> FALSE, wroteBeforeHeaders |-> FALSE,
    writesAfterEnd |-> 0, destroyed |-> FALSE, failedWrites |-> 0,
    statusCode |-> 0, errorResponses |-> 0,
    \* control: pending exception, last boolean return value, Date.now()
    thrown |-> NoError, ret |-> TRUE, clock |-> t,
    \* history
    stateLog |-> <<INITIALIZING>>, argsSeen |-> [i \in ToolIndexes |-> <<>>],
    fed |-> <<>>, linesReturned |-> <<>>, drained |-> <<>>, drains |-> 0,
    bytesRead |-> <<>>, toolCallsDeltas |-> 0, finalLog |-> <<>>,
    entryLog |-> <<>>, seeds |-> <<>>, readAfterFailedWrite |-> FALSE ]

Throws(s) == s.thrown.type # "none"

contentStateKeys ==
  {"accumulatedContent", "accumulatedReasoning", "encounteredToolCall", "toolCalls"}
bufferStateKeys ==
  {"isBuffering", "jsonBufferSize", "jsonBufferContent", "lineBufferSize", "bufferAge", "isTimedOut"}

\* ------------------------------------------------- StreamStateManager
startStreamingAlways(s) ==
  [s EXCEPT !.isSucceeded = TRUE, !.state = STREAMING,
            !.stateLog = Append(@, STREAMING), !.ret = TRUE]

startStreaming(s) ==
  IF s.isSucceeded THEN [s EXCEPT !.ret = FALSE]
  ELSE [s EXCEPT !.isSucceeded = TRUE, !.state = STREAMING,
                 !.stateLog = Append(@, STREAMING), !.ret = TRUE]

startFinalizing(s) == [s EXCEPT !.state = FINALIZING, !.stateLog = Append(@, FINALIZING)]

complete(s) == [s EXCEPT !.state = COMPLETED, !.stateLog = Append(@, COMPLETED)]

setError(s) == [s EXCEPT !.state = ERROR, !.stateLog = Append(@, ERROR)]

isCompleted(s) == s.state = COMPLETED

\* ------------------------------------------------------ reply.raw, sendSSE
Event(name, index, type, text, tokens) ==
  [event |-> name, index |-> index, type |-> type, text |-> text, tokens |-> tokens]

\* reply.raw.writeHead(200, ...): throws ERR_HTTP_HEADERS_SENT when the headers
\* have already gone out (an earlier write or end sends them implicitly)
writeHead(s) ==
  IF s.headersSent
  THEN [s EXCEPT !.writeHeadCalls = @ + 1,
                 !.thrown = [type |-> "ERR_HTTP_HEADERS_SENT",
                             message |-> "Cannot write headers after they are sent",
                             state |-> "none", keys |-> {}, buffer |-> <<>>]]
  ELSE [s EXCEPT !.writeHeadCalls = @ + 1, !.headersSent = TRUE, !.explicitHeaders = TRUE]

\* reply.raw.write(frame): the first write sends the implicit headers; a write
\* after end() or to a destroyed socket is not delivered, and write() does not
\* throw; its return value is not looked at
sendSSE(s, ev) ==
  [s EXCEPT !.out = Append(@, ev), !.headersSent = TRUE,
            !.wroteBeforeHeaders = @ \/ ~s.explicitHeaders,
            !.writesAfterEnd = @ + (IF s.endCalls > 0 THEN 1 ELSE 0),
            !.failedWrites = @ + (IF s.destroyed THEN 1 ELSE 0)]

end(s) == [s EXCEPT !.endCalls = @ + 1, !.headersSent = TRUE]

\* --------------------------------------------------- SSEMessageBuilder
sendMessageStart(s) ==
  sendSSE(sendSSE(s, Event("message_start", -1, "message", <<>>, 0)),
          Event("ping", -1, "ping", <<>>, 0))

sendContentBlockStop(s, index) ==
  sendSSE(s, Event("content_block_stop", index, "none", <<>>, 0))

sendTextBlockStart(s, index) ==
  sendSSE(s, Event("content_block_start", index, "text", <<>>, 0))

sendTextDelta(s, text, index) ==
  sendSSE(s, Event("content_block_delta", index, "text_delta", text, 0))

sendThinkingDelta(s, thinking, index) ==
  sendSSE(s, Event("content_block_delta", index, "thinking_delta", thinking, 0))

sendToolUseBlockStart(s, index) ==
  sendSSE(s, Event("content_block_start", index, "tool_use", <<>>, 0))

sendToolInputDelta(s, index, partialJson) ==
  sendSSE(s, Event("content_block_delta", index, "input_json_delta", partialJson, 0))

sendMessageDelta(s, stopReason, outputTokens) ==
  sendSSE(s, Event("message_delta", -1, stopReason, <<>>, outputTokens))

sendMessageStop(s) == sendSSE(s, Event("message_stop", -1, "none", <<>>, 0))

\* ----------------------------------------------------- ContentProcessor
substring(str, start) == SubSeq(str, start + 1, Len(str))

processToolCallStoresAlways(s, toolCall) ==
  LET idx == toolCall.index
      s1 == [s EXCEPT !.encounteredToolCall = TRUE,
                      !.argsSeen[idx] = Append(@, toolCall.arguments)]
      s2 == IF idx \notin DOMAIN s1.toolCallAccumulators
            THEN sendToolUseBlockStart(
                   [s1 EXCEPT !.toolCallAccumulators = (idx :> <<>>) @@ @], idx)
            ELSE s1
      newArgs == toolCall.arguments
      oldArgs == s2.toolCallAccumulators[idx]
  IN IF Len(newArgs) > Len(oldArgs)
     THEN [sendToolInputDelta(s2, idx, substring(newArgs, Len(oldArgs)))
             EXCEPT !.toolCallAccumulators[idx] = newArgs]
     ELSE [s2 EXCEPT !.toolCallAccumulators[idx] = newArgs]

processToolCallWholeArgs(s, toolCall) ==
  LET idx == toolCall.index
      s1 == [s EXCEPT !.encounteredToolCall = TRUE,
                      !.argsSeen[idx] = Append(@, toolCall.arguments)]
      s2 == IF idx \notin DOMAIN s1.toolCallAccumulators
            THEN sendToolUseBlockStart(
                   [s1 EXCEPT !.toolCallAccumulators = (idx :> <<>>) @@ @], idx)
            ELSE s1
      newArgs == toolCall.arguments
      oldArgs == s2.toolCallAccumulators[idx]
  IN IF Len(newArgs) > Len(oldArgs)
     THEN [sendToolInputDelta(s2, idx, newArgs) EXCEPT !.toolCallAccumulators[idx] = newArgs]
     ELSE s2

processToolCall(s, toolCall) ==
  LET idx == toolCall.index
      s1 == [s EXCEPT !.encounteredToolCall = TRUE,
                      !.argsSeen[idx] = Append(@, toolCall.arguments)]
      s2 == IF idx \notin DOMAIN s1.toolCallAccumulators
            THEN sendToolUseBlockStart(
                   [s1 EXCEPT !.toolCallAccumulators = (idx :> <<>>) @@ @], idx)
            ELSE s1
      newArgs == toolCall.arguments
      oldArgs == s2.toolCallAccumulators[idx]
  IN IF Len(newArgs) > Len(oldArgs)
     THEN [sendToolInputDelta(s2, idx, substring(newArgs, Len(oldArgs)))
             EXCEPT !.toolCallAccumulators[idx] = newArgs]
     ELSE s2

processContent(s, content) ==
  LET s1 == IF ~s.textBlockStarted
            THEN sendTextBlockStart([s EXCEPT !.textBlockStarted = TRUE], 0)
            ELSE s
  IN sendTextDelta([s1 EXCEPT !.accumulatedContent = @ \o content], content, 0)

processReasoning(s, reasoning) ==
  LET s1 == IF ~s.textBlockStarted
            THEN sendTextBlockStart([s EXCEPT !.textBlockStarted = TRUE], 0)
            ELSE s
  IN sendThinkingDelta([s1 EXCEPT !.accumulatedReasoning = @ \o reasoning], reasoning, 0)

RECURSIVE processToolCalls(_, _)
processToolCalls(s, toolCalls) ==
  IF toolCalls = <<>> THEN s
  ELSE processToolCalls(processToolCall(s, Head(toolCalls)), Tail(toolCalls))

processDelta(s, parsed) ==
  IF ~parsed.hasDelta THEN s
  ELSE IF parsed.hasToolCalls
       THEN processToolCalls([s EXCEPT !.toolCallsDeltas = @ + 1], parsed.tool_calls)
  ELSE IF parsed.content # <<>> THEN processContent(s, parsed.content)
  ELSE IF parsed.reasoning # <<>> THEN processReasoning(s, parsed.reasoning)
  ELSE s

Min(S) == CHOOSE x \in S : \A y \in S : x <= y

\* Object.keys(toolCallAccumulators).forEach: integer keys in ascending order
RECURSIVE sendStopsFor(_, _)
sendStopsFor(s, keys) ==
  IF keys = {} THEN s
  ELSE sendStopsFor(sendContentBlockStop(s, Min(keys)), keys \ {Min(keys)})

sendContentBlockStopsTextFirst(s) ==
  IF s.textBlockStarted THEN sendContentBlockStop(s, 0)
  ELSE IF s.encounteredToolCall THEN sendStopsFor(s, DOMAIN s.toolCallAccumulators)
  ELSE s

sendContentBlockStops(s) ==
  IF s.encounteredToolCall THEN sendStopsFor(s, DOMAIN s.toolCallAccumulators)
  ELSE IF s.textBlockStarted THEN sendContentBlockStop(s, 0)
  ELSE s

\* str.split(' ').length
SplitOnSpaceLength(str) == Cardinality({i \in 1..Len(str) : str[i] = " "}) + 1

calculateOutputTokens(s) ==
  IF s.usage > 0 THEN s.usage
  ELSE SplitOnSpaceLength(s.accumulatedContent) + SplitOnSpaceLength(s.accumulatedReasoning)

getStopReasonByTextBlock(s) == IF s.textBlockStarted THEN "end_turn" ELSE "tool_use"

getStopReason(s) == IF s.encounteredToolCall THEN "tool_use" ELSE "end_turn"

\* -------------------------------------------------------- BufferManager
\* str.split('\n')
RECURSIVE splitLines(_)
splitLines(str) ==
  LET nl == {i \in 1..Len(str) : str[i] = "\n"} IN
  IF nl = {} THEN <<str>>
  ELSE <<SubSeq(str, 1, Min(nl) - 1)>> \o splitLines(SubSeq(str, Min(nl) + 1, Len(str)))

extractCompleteLinesDropsFragment(s, newChunk) ==
  LET parts == splitLines(s.lineBuffer \o newChunk)
      lines == SubSeq(parts, 1, Len(parts) - 1)
  IN [h |-> [s EXCEPT !.lineBuffer = <<>>,
                      !.fed = @ \o newChunk,
                      !.linesReturned = @ \o lines],
      lines |-> lines]

\* returns the handler with the new line buffer, and the complete lines
extractCompleteLines(s, newChunk) ==
  LET parts == splitLines(s.lineBuffer \o newChunk)
      lines == SubSeq(parts, 1, Len(parts) - 1)
  IN [h |-> [s EXCEPT !.lineBuffer = parts[Len(parts)],
                      !.fed = @ \o newChunk,
                      !.linesReturned = @ \o lines],
      lines |-> lines]

\* returns the handler with the drained line buffer, and the fragment
getRemainingLineBuffer(s) ==
  [h |-> [s EXCEPT !.lineBuffer = <<>>, !.drained = s.lineBuffer, !.drains = @ + 1],
   remaining |-> s.lineBuffer]

startBuffering(s, initialData) ==
  [s EXCEPT !.jsonBuffer = initialData, !.isBuffering = TRUE, !.bufferStartTime = s.clock]

addToBufferReplaces(s, data) == [s EXCEPT !.jsonBuffer = data]

\* appends; the size check is made by the caller on the result
addToBuffer(s, data) == [s EXCEPT !.jsonBuffer = @ \o data]

clearBuffer(s) == [s EXCEPT !.jsonBuffer = <<>>, !.isBuffering = FALSE, !.bufferStartTime = 0]

isBufferTimedOutInclusive(s) ==
  IF s.bufferStartTime = 0 THEN FALSE
  ELSE s.clock - s.bufferStartTime >= bufferTimeoutMs

isBufferTimedOut(s) ==
  IF s.bufferStartTime = 0 THEN FALSE
  ELSE s.clock - s.bufferStartTime > bufferTimeoutMs

\* ---------------------------------------------- StreamingResponseHandler
VARIABLES
  h,     \* the StreamingResponseHandler of the request, its components and its reply
  body,  \* bytes of the backend response body not yet handed out by reader.read()
  pc,    \* where the request is: handleStreamingResponse "reading", "returned" or
         \* "thrown", or handleMessagesRequest "settled"
  v8,    \* which wording of JSON.parse error messages the runtime uses
  other  \* a second request in flight at the same time: its handler, body and pc

vars == <<h, body, pc, v8, other>>

initializeStream(s) ==
  LET headed(s2) == IF Throws(s2) THEN s2 ELSE sendMessageStart(s2)
      s1 == startStreaming(s)
  IN IF ~s1.ret THEN s1 ELSE headed(writeHead(s1))

processStreamData(s, parsed) ==
  IF parsed.error # "none"
  THEN LET s1 == setError(s) IN
       [s1 EXCEPT !.thrown =
          ProxyError("streaming_error", parsed.error, s1.state,
                     contentStateKeys \cup {"model", "state", "type"}, <<>>)]
  ELSE LET s1 == initializeStream(s)
           s2 == IF parsed.usage # -1 THEN [s1 EXCEPT !.usage = parsed.usage] ELSE s1
       IN IF Throws(s1) THEN s1 ELSE processDelta(s2, parsed)

\* number of tool-call fragments (elements of tool_calls arrays) processed so far
Fragments(s) == Len(s.argsSeen[0]) + Len(s.argsSeen[1])

finalizeStream(s) ==
  LET s0 == [s EXCEPT !.finalLog =
               Append(@, [fragments |-> Fragments(s), toolCallsDeltas |-> s.toolCallsDeltas,
                          indexes |-> {i \in ToolIndexes : s.argsSeen[i] # <<>>},
                          written |-> Len(s.out), usage |-> s.usage,
                          content |-> s.accumulatedContent,
                          reasoning |-> s.accumulatedReasoning])]
      s1 == sendContentBlockStops(startFinalizing(s0))
      outputTokens == calculateOutputTokens(s1)
      stopReason == getStopReason(s1)
  IN end(complete(sendMessageStop(sendMessageDelta(s1, stopReason, outputTokens))))

\* trimmed.split(/(?=data:\s*)/): cuts before every later occurrence of "data:"
RECURSIVE splitBeforeData(_, _, _)
splitBeforeData(str, from, i) ==
  IF i > Len(str) THEN <<SubSeq(str, from, Len(str))>>
  ELSE IF i > from /\ startsWithData(SubSeq(str, i, Len(str)))
       THEN <<SubSeq(str, from, i - 1)>> \o splitBeforeData(str, i, i + 1)
       ELSE splitBeforeData(str, from, i + 1)

splitDataEntries(line) ==
  LET trimmed == trim(line) IN
  IF trimmed = <<>> THEN <<>>
  ELSE SelectSeq(splitBeforeData(trimmed, 1, 1), LAMBDA part : startsWithData(trim(part)))

\* the catch block of processBufferedJson
bufferedParseFailure(s) ==
  LET s1 == setError([s EXCEPT !.thrown = NoError]) IN
  [s1 EXCEPT !.thrown =
     ProxyError("buffered_streaming_parse_error", "Buffered JSON parse error", s1.state,
                bufferStateKeys \cup contentStateKeys \cup {"model", "state", "type"},
                s1.jsonBuffer)]

processBufferedJson(s, jsonData) ==
  LET processed(s1) == IF Throws(s1) THEN bufferedParseFailure(s1)
                       ELSE [clearBuffer(s1) EXCEPT !.ret = TRUE]
      parsed(r) == IF ~r.ok THEN bufferedParseFailure(s)
                   ELSE processed(processStreamData(s, r.val))
  IN parsed(JSONparse(jsonData))

\* the catch block of the direct parse in processDataEntry
directParseFailure(s, dataStr, message) ==
  LET s0 == [s EXCEPT !.thrown = NoError] IN
  IF isRecoverableJsonError(message, v8)
  THEN [startBuffering(s0, dataStr) EXCEPT
          !.ret = TRUE, !.seeds = Append(@, [data |-> dataStr, message |-> message])]
  ELSE LET s1 == setError(s0) IN
       [s1 EXCEPT !.thrown =
          ProxyError("streaming_parse_error", message, s1.state,
                     contentStateKeys \cup {"raw_data", "model", "state", "type"}, <<>>)]

\* the direct parse of processDataEntry: JSON.parse, then processStreamData
parseDirectly(s, dataStr) ==
  LET processed(s1) == IF Throws(s1)
                       THEN directParseFailure(s1, dataStr, s1.thrown.message)
                       ELSE [s1 EXCEPT !.ret = TRUE]
      parsed(r) == IF ~r.ok THEN directParseFailure(s, dataStr, r.err)
                   ELSE processed(processStreamData(s, r.val))
  IN parsed(JSONparse(dataStr))

\* the buffering branch of processDataEntry: addToBuffer, then processBufferedJson
parseBuffered(s, dataStr) ==
  LET added(s1) ==
        IF JsLength(s1.jsonBuffer) > maxBufferSize
        THEN [setError(s1) EXCEPT !.thrown =
                ProxyError("json_buffer_overflow", "JSON buffer overflow", "none",
                           bufferStateKeys \cup {"type"}, s1.jsonBuffer)]
        ELSE processBufferedJson(s1, s1.jsonBuffer)
  IN added(addToBuffer(s, dataStr))

\* history: the payload that arrives, and the recovery buffer it finds
Arrival(s, dataStr) ==
  [payload |-> dataStr, isBuffering |-> s.isBuffering, jsonBuffer |-> s.jsonBuffer,
   age |-> IF s.bufferStartTime = 0 THEN 0 ELSE s.clock - s.bufferStartTime,
   state |-> s.state, written |-> Len(s.out), ended |-> s.endCalls > 0]

processDataEntry(s0, dataEntry) ==
  LET trimmed == trim(dataEntry)
      dataStr == TrimLeft(SubSeq(trimmed, 6, Len(trimmed)))
      s == [s0 EXCEPT !.entryLog = Append(@, Arrival(s0, dataStr))]
  IN
  IF ~startsWithData(trimmed) THEN [s0 EXCEPT !.ret = TRUE]
  ELSE IF dataStr = Sentinel THEN [finalizeStream(s) EXCEPT !.ret = FALSE]
  ELSE IF s.isBuffering /\ isBufferTimedOut(s)
  THEN [setError(s) EXCEPT !.thrown =
          ProxyError("json_buffer_timeout", "JSON buffer timeout", "none",
                     bufferStateKeys \cup {"type"}, s.jsonBuffer)]
  ELSE IF s.isBuffering THEN parseBuffered(s, dataStr)
  ELSE parseDirectly(s, dataStr)

RECURSIVE processDataEntriesAll(_, _)
processDataEntriesAll(s, dataEntries) ==
  IF dataEntries = <<>> THEN [s EXCEPT !.ret = TRUE]
  ELSE LET processed(s1) == IF Throws(s1) THEN s1
                            ELSE processDataEntriesAll(s1, Tail(dataEntries))
       IN processed(processDataEntry(s, Head(dataEntries)))

RECURSIVE processDataEntries(_, _)
processDataEntries(s, dataEntries) ==
  IF dataEntries = <<>> THEN [s EXCEPT !.ret = TRUE]
  ELSE LET processed(s1) == IF Throws(s1) \/ ~s1.ret THEN s1
                            ELSE processDataEntries(s1, Tail(dataEntries))
       IN processed(processDataEntry(s, Head(dataEntries)))

processLine(s, line) ==
  LET trimmed == trim(line) IN
  IF trimmed = <<>> THEN [s EXCEPT !.ret = TRUE]
  ELSE processDataEntries(s, splitDataEntries(trimmed))

processRemainingLineBuffer(s) ==
  LET r == getRemainingLineBuffer(s) IN
  IF trim(r.remaining) # <<>> THEN processLine(r.h, r.remaining) ELSE r.h

\* ------------------------------------------------ handleStreamingResponse
\* for (const line of completeLines): stops at the first line that returns false
RECURSIVE processLines(_, _)
processLines(s, lines) ==
  IF lines = <<>> THEN [s EXCEPT !.ret = TRUE]
  ELSE LET processed(s1) == IF Throws(s1) \/ ~s1.ret THEN s1
                            ELSE processLines(s1, Tail(lines))
       IN processed(processLine(s, Head(lines)))

\* the catch block: the state is set to Error and the ProxyError is re-thrown
catchBlock(s) == [h |-> [setError(s) EXCEPT !.ret = TRUE], pc |-> "thrown"]

afterLoopFinalizes(s) ==
  LET drained(s1) ==
        IF Throws(s1) THEN catchBlock(s1)
        ELSE [h |-> [(IF ~isCompleted(s1) THEN finalizeStream(s1) ELSE s1) EXCEPT !.ret = TRUE],
              pc |-> "returned"]
  IN drained(processRemainingLineBuffer(s))

\* what follows the loop: the residue of the line buffer, then reply.raw.end()
afterLoop(s) ==
  LET drained(s1) ==
        IF Throws(s1) THEN catchBlock(s1)
        ELSE [h |-> [(IF ~isCompleted(s1) THEN end(s1) ELSE s1) EXCEPT !.ret = TRUE],
              pc |-> "returned"]
  IN drained(processRemainingLineBuffer(s))

\* one iteration of the loop whose reader.read() delivered the bytes `value`
loopBody(s, value) ==
  LET r == extractCompleteLines(
             [s EXCEPT !.bytesRead = @ \o value,
                       !.readAfterFailedWrite = @ \/ s.failedWrites > 0],
             decode(value))
      processed(s1) == IF Throws(s1) THEN catchBlock(s1)
                       ELSE IF ~s1.ret \/ isCompleted(s1) THEN afterLoop(s1)
                       ELSE [h |-> s1, pc |-> "reading"]
  IN processed(processLines(r.h, r.lines))

\* ------------------------------------------------------ handleRouteError
\* every ProxyError of the streaming handler carries status code 500
handleRouteErrorIgnoresHeaders(s) ==
  [s EXCEPT !.statusCode = 500, !.errorResponses = @ + 1]

\* the catch block of handleMessagesRequest
handleRouteError(s) ==
  IF s.headersSent THEN s
  ELSE [s EXCEPT !.statusCode = 500, !.errorResponses = @ + 1]

\* ------------------------------------------------------ backend bodies
Line(payload) == DataPrefix \o <<" ">> \o payload \o <<"\n">>

ContentA == Line(<<"{content:", "a", "}">>)
ContentAccent == Line(<<"{content:", "0xC3", "0xA9", "}">>)
ReasoningB == Line(<<"{reasoning:", "b", "}">>)
Tool0A == Line(<<"{tool0:", "a", "}">>)
Tool0AB == Line(<<"{tool0:", "a", "b", "}">>)
Tool0B == Line(<<"{tool0:", "b", "}">>)
Tool1A == Line(<<"{tool1:", "a", "}">>)
\* a fragment for index 0 with no arguments
Tool0None == Line(<<"{tool0:", "}">>)
ToolsEmpty == Line(<<"{tool_calls:[]}">>)
Usage2 == Line(<<"{usage:2}">>)
Usage0 == Line(<<"{usage:0}">>)
\* deltas that carry more than one of tool_calls, content and reasoning
EmptyToolsAndContent == Line(<<"{tool_calls:[],content:a}">>)
ContentAndReasoning == Line(<<"{content:a,reasoning:b}">>)
ToolAndContent == Line(<<"{tool0:a,content:a}">>)
\* a content delta whose text is x, data:, y
ContentData == Line(<<"{content:", "x", "d", "a", "t", "a", ":", "y", "}">>)
BackendError == Line(<<"{error}">>)
BackendErrorUT == Line(<<"{error:UT}">>)
\* a content payload cut in three, and the third piece without its "data:" prefix
PieceOpen == Line(<<"{content:", "a">>)
PieceMiddle == Line(<<"b">>)
PieceClose == Line(<<"}">>)
BareClose == <<"}", "\n">>
\* an unterminated payload longer than maxBufferSize, and a long continuation
BigOpen == Line(<<"{content:", "a^50000">>)
BigMiddle == Line(<<"a^50000">>)
\* a payload that is not JSON
Garbage == Line(<<"x", "y">>)
Done == Line(Sentinel)
DoneNoNewline == DataPrefix \o <<" ">> \o Sentinel

Bodies(frames) ==
  UNION {{Concat(f) : f \in [1..n -> frames]} : n \in 0..MaxFrames}

Engines == {"legacy", "modern"}

\* no second request
NoRequest == [h |-> NewHandler(1), body |-> <<>>, pc |-> "none", interleaved |-> FALSE]
\* a second request whose handleStreamingResponse has just built its handler
NewRequest(bytes) == [h |-> NewHandler(1), body |-> bytes, pc |-> "reading", interleaved |-> FALSE]

InitRequests(bodies, others) ==
  /\ h = NewHandler(1)
  /\ body \in bodies
  /\ pc = "reading"
  /\ v8 \in Engines
  /\ other \in others

InitWith(frames) == InitRequests(Bodies(frames), {NoRequest})

\* Time that passes while the loop awaits reader.read(): none to speak of, or
\* more than the buffer timeout.  Date.now() is read only by startBuffering and
\* isBufferTimedOut, so the clock is advanced only while the recovery buffer is
\* active; time that passes otherwise cannot be observed.
Elapse(s, dt) == [s EXCEPT !.clock = @ + dt]
Waits(s) ==
  IF s.isBuffering
  THEN {dt \in {0, bufferTimeoutMs, bufferTimeoutMs + 1} : (s.clock - 1) + dt <= MaxElapsed}
  ELSE {0}

\* the function runs on to its next await, its return or its throw
Resume(r) == h' = r.h /\ pc' = r.pc

\* reader.read() resolves with a chunk of n bytes
ReadChunk ==
  /\ pc = "reading"
  /\ \E n \in 1..Len(body), dt \in Waits(h) :
       /\ Resume(loopBody(Elapse(h, dt), SubSeq(body, 1, n)))
       /\ body' = SubSeq(body, n + 1, Len(body))
  /\ UNCHANGED <<v8, other>>

\* reader.read() resolves with done: the body has ended
ReadEnd ==
  /\ pc = "reading"
  /\ body = <<>>
  /\ \E dt \in Waits(h) : Resume(afterLoop(Elapse(h, dt)))
  /\ UNCHANGED <<body, v8, other>>

\* the client goes away: the socket of reply.raw is destroyed
ClientDisconnects ==
  /\ pc = "reading"
  /\ ~h.destroyed
  /\ h' = [h EXCEPT !.destroyed = TRUE]
  /\ UNCHANGED <<body, pc, v8, other>>

\* handleMessagesRequest: the await of handleStreamingResponse returns, or it
\* throws and the catch block calls handleRouteError
RequestSettles ==
  /\ pc \in {"returned", "thrown"}
  /\ h' = IF pc = "thrown" THEN handleRouteError(h) ELSE h
  /\ pc' = "settled"
  /\ UNCHANGED <<body, v8, other>>

Next == ReadChunk \/ ReadEnd \/ ClientDisconnects \/ RequestSettles

MainFrames == {ContentA, ReasoningB, Tool0A, BackendError, Done, DoneNoNewline}
Init == InitWith(MainFrames)
Spec == Init /\ [][Next]_vars

\* other specifications: the same program over other backend bodies
ToolFrames == {ContentA, Tool0A, Tool0AB, Tool1A, ToolsEmpty, Done}
InitTools == InitWith(ToolFrames)
SpecTools == InitTools /\ [][Next]_vars

ByteFrames == {ContentA, ContentAccent, ReasoningB, Done}
InitBytes == InitWith(ByteFrames)
SpecBytes == InitBytes /\ [][Next]_vars

RecoveryFrames ==
  {PieceOpen, PieceMiddle, PieceClose, BareClose, BigOpen, Garbage, BackendErrorUT, Done}
InitRecovery == InitWith(RecoveryFrames)
SpecRecovery == InitRecovery /\ [][Next]_vars

TimeoutFrames == {PieceOpen, PieceClose, BigMiddle, Done}
InitTimeout == InitWith(TimeoutFrames)
SpecTimeout == InitTimeout /\ [][Next]_vars

ArgFrames == {Tool0A, Tool0AB, Tool0None, Tool1A, Done}
InitArgs == InitWith(ArgFrames)
SpecArgs == InitArgs /\ [][Next]_vars

MixedFrames == {EmptyToolsAndContent, ContentAndReasoning, ToolAndContent, ReasoningB, Done}
InitMixed == InitWith(MixedFrames)
SpecMixed == InitMixed /\ [][Next]_vars

TextFrames == {ContentA, ContentData, Usage2, Usage0, Done}
InitText == InitWith(TextFrames)
SpecText == InitText /\ [][Next]_vars

\* ------------------------------------------------ two concurrent requests
handlerSharingLineBuffer(request) == [request.h EXCEPT !.lineBuffer = h.lineBuffer]

\* the handler a request works with: the one its own call of
\* handleStreamingResponse has constructed
handlerOf(request) == request.h

\* the second request runs on to its next await, its return or its throw;
\* history: whether it has run while the first request was suspended in the
\* middle of its body
ResumeOther(r, rest) ==
  other' = [h |-> r.h, body |-> rest, pc |-> r.pc,
            interleaved |-> other.interleaved
                              \/ (pc = "reading" /\ h.bytesRead # <<>> /\ body # <<>>)]

OtherReadChunk ==
  /\ other.pc = "reading"
  /\ \E n \in 1..Len(other.body), dt \in Waits(other.h) :
       ResumeOther(loopBody(Elapse(handlerOf(other), dt), SubSeq(other.body, 1, n)),
                   SubSeq(other.body, n + 1, Len(other.body)))
  /\ UNCHANGED <<h, body, pc, v8>>

OtherReadEnd ==
  /\ other.pc = "reading"
  /\ other.body = <<>>
  /\ \E dt \in Waits(other.h) :
       ResumeOther(afterLoop(Elapse(handlerOf(other), dt)), other.body)
  /\ UNCHANGED <<h, body, pc, v8>>

NextPair == Next \/ OtherReadChunk \/ OtherReadEnd

\* two requests, one of which ends with the sentinel and one with the end of
\* the body
FirstBodies == {ContentA \o Done, ReasoningB \o ContentA}
OtherBodies == {Tool0A \o Done, ContentA \o ContentA}
InitPair == InitRequests(FirstBodies, {NewRequest(bytes) : bytes \in OtherBodies})
SpecPair == InitPair /\ [][NextPair]_vars

\* ------------------------------------- coalesced entries and separate lines
\* The same entries are given to two handlers: to `h` coalesced into one line
\* without line terminators, to `other.h` as separate lines.  `body` is the
\* list of entries still to come, `other.body` the coalesced lines `h` was given.
EntryOf(payload) == DataPrefix \o <<" ">> \o payload
CoalescedEntries ==
  {EntryOf(payload) : payload \in {<<"{content:", "a", "}">>, <<"{content:", "a">>, <<"}">>,
                                   <<"{tool0:", "a", "}">>, <<"{error}">>, Sentinel}}
EntryLists == UNION {[1..n -> CoalescedEntries] : n \in 0..MaxFrames}

\* where the loop of handleStreamingResponse stands after a line
AfterLine(s) == IF Throws(s) \/ ~s.ret THEN "stopped" ELSE "reading"

ReadCoalescedLine ==
  /\ pc = "reading"
  /\ \E n \in 1..Len(body), dt \in Waits(h) :
       LET entries == SubSeq(body, 1, n)
           step(one, each) ==
             /\ h' = one
             /\ pc' = AfterLine(one)
             /\ other' = [h |-> each, body |-> Append(other.body, Concat(entries)),
                          pc |-> AfterLine(each), interleaved |-> FALSE]
       IN /\ step(processLine(Elapse(h, dt), Concat(entries)),
                  processLines(Elapse(other.h, dt), entries))
          /\ body' = SubSeq(body, n + 1, Len(body))
  /\ UNCHANGED v8

SpecCoalesced == InitRequests(EntryLists, {NewRequest(<<>>)}) /\ [][ReadCoalescedLine]_vars

\* ------------------------------------------- lines without a data: entry
\* `h` is given every line, `other.h` only the lines that hold a data: entry;
\* `body` is the list of lines still to come, `other.body` the lines `h` was given.
DataLines ==
  {EntryOf(payload) : payload \in {<<"{content:", "a", "}">>, <<"{content:", "a">>, <<"}">>, Sentinel}}
\* an empty line, a blank line, a comment line, an event: line and a
\* continuation without prefix
NoDataLines ==
  {<<>>, <<" ">>, <<":", " ", "x">>, <<"e", "v", "e", "n", "t", ":", " ", "x">>, <<"}">>}
LineLists == UNION {[1..n -> DataLines \cup NoDataLines] : n \in 0..MaxFrames}

ReadLine ==
  /\ pc = "reading"
  /\ body # <<>>
  /\ \E dt \in Waits(h) :
       LET line == Head(body)
           step(all, kept) ==
             /\ h' = all
             /\ pc' = AfterLine(all)
             /\ other' = [h |-> kept, body |-> Append(other.body, line),
                          pc |-> AfterLine(kept), interleaved |-> FALSE]
       IN step(processLine(Elapse(h, dt), line),
               IF line \in NoDataLines THEN [Elapse(other.h, dt) EXCEPT !.ret = TRUE]
               ELSE processLine(Elapse(other.h, dt), line))
  /\ body' = Tail(body)
  /\ UNCHANGED v8

SpecNoData == InitRequests(LineLists, {NewRequest(<<>>)}) /\ [][ReadLine]_vars

\* ------------------------------- the TypeScript rendition of the handler
\* BufferManager (TypeScript): null for bufferStartTime is 0, as above
flushJsonBuffer(s) ==
  [h |-> [s EXCEPT !.jsonBuffer = <<>>, !.isBuffering = FALSE, !.bufferStartTime = 0],
   content |-> s.jsonBuffer]

startJsonBuffering(s) ==
  [s EXCEPT !.isBuffering = TRUE, !.bufferStartTime = s.clock, !.jsonBuffer = <<>>]

\* appends, then empties the buffer itself when it is too long or too old
addToJsonBuffer(s, data) ==
  LET sized(s1) == IF JsLength(s1.jsonBuffer) > maxBufferSize THEN flushJsonBuffer(s1).h ELSE s1
      aged(s1) == IF s1.bufferStartTime # 0 /\ s1.clock - s1.bufferStartTime > bufferTimeoutMs
                  THEN flushJsonBuffer(s1).h ELSE s1
  IN IF ~s.isBuffering THEN s
     ELSE aged(sized([s EXCEPT !.jsonBuffer = @ \o data]))

bufferStatusKeys(s) ==
  {"lineBufferSize", "jsonBufferSize", "isBuffering"}
    \cup (IF s.bufferStartTime # 0 THEN {"bufferAge"} ELSE {})

\* clear() of the TypeScript BufferManager also empties the line buffer
clear(s) ==
  [s EXCEPT !.lineBuffer = <<>>, !.jsonBuffer = <<>>, !.isBuffering = FALSE,
            !.bufferStartTime = 0]

\* SSEMessageBuilder (TypeScript): usage is left out when outputTokens is 0
sendMessageDeltaWithStop(s, stopReason, outputTokens) ==
  sendSSE(s, Event("message_delta", -1, stopReason, <<>>,
                   IF outputTokens # 0 THEN outputTokens ELSE -1))

\* StreamingResponseHandler (TypeScript); its ContentProcessor, StreamStateManager
\* and initializeStream have the statements of the JavaScript ones
processStreamDataTS(s, parsed) ==
  IF parsed.error # "none"
  THEN LET s1 == setError(s) IN
       [s1 EXCEPT !.thrown =
          ProxyError("streaming_error", parsed.error, s1.state,
                     {"timestamp", "operation", "model", "state", "metadata"}, <<>>)]
  ELSE LET s1 == initializeStream(s)
           s2 == IF parsed.usage # -1 THEN [s1 EXCEPT !.usage = parsed.usage] ELSE s1
       IN IF Throws(s1) THEN s1 ELSE processDelta(s2, parsed)

finalizeStreamTS(s) ==
  LET s1 == sendContentBlockStops(startFinalizing(s))
      outputTokens == calculateOutputTokens(s1)
      stopReason == getStopReason(s1)
  IN end(complete(sendMessageStop(sendMessageDeltaWithStop(s1, stopReason, outputTokens))))

processBufferedJsonTS(s, jsonData) ==
  LET failed(s0) ==
        LET s1 == setError([s0 EXCEPT !.thrown = NoError]) IN
        [s1 EXCEPT !.thrown =
           ProxyError("buffered_streaming_parse_error", "Buffered JSON parse error", s1.state,
                      {"timestamp", "operation", "model", "state", "metadata"}, s1.jsonBuffer)]
      processed(s1) == IF Throws(s1) THEN failed(s1) ELSE [clear(s1) EXCEPT !.ret = TRUE]
      parsed(r) == IF ~r.ok THEN failed(s) ELSE processed(processStreamDataTS(s, r.val))
  IN parsed(JSONparse(jsonData))

processDataEntryTS(s, dataEntry) ==
  LET trimmed == trim(dataEntry)
      dataStr == TrimLeft(SubSeq(trimmed, 6, Len(trimmed)))
      flushed(r) == IF r.content # <<>> THEN processBufferedJsonTS(r.h, r.content)
                    ELSE [r.h EXCEPT !.ret = TRUE]
      \* the catch block of the direct parse: whatever was thrown, buffering starts
      caught(s1) ==
        [addToJsonBuffer(startJsonBuffering([s1 EXCEPT !.thrown = NoError]), dataStr)
           EXCEPT !.ret = TRUE]
      processed(s1) == IF Throws(s1) THEN caught(s1) ELSE [s1 EXCEPT !.ret = TRUE]
      parsed(r) == IF ~r.ok THEN caught(s)
                   ELSE processed(processStreamDataTS(s, r.val))
  IN
  IF ~startsWithData(trimmed) THEN [s EXCEPT !.ret = TRUE]
  ELSE IF dataStr = Sentinel THEN [finalizeStreamTS(s) EXCEPT !.ret = FALSE]
  \* bufferStatus.isBuffering alone: the age of the buffer is not looked at
  ELSE IF s.isBuffering
  THEN [setError(s) EXCEPT !.thrown =
          ProxyError("json_buffer_timeout", "JSON buffer timeout", "none",
                     bufferStatusKeys(s) \cup {"timestamp", "operation"}, s.jsonBuffer)]
  ELSE IF s.isBuffering THEN flushed(flushJsonBuffer(addToJsonBuffer(s, dataStr)))
  ELSE parsed(JSONparse(dataStr))

RECURSIVE processDataEntriesTS(_, _)
processDataEntriesTS(s, dataEntries) ==
  IF dataEntries = <<>> THEN [s EXCEPT !.ret = TRUE]
  ELSE LET processed(s1) == IF Throws(s1) \/ ~s1.ret THEN s1
                            ELSE processDataEntriesTS(s1, Tail(dataEntries))
       IN processed(processDataEntryTS(s, Head(dataEntries)))

processLineTS(s, line) ==
  LET trimmed == trim(line) IN
  IF trimmed = <<>> THEN [s EXCEPT !.ret = TRUE]
  ELSE processDataEntriesTS(s, splitDataEntries(trimmed))

\* `h` is the JavaScript handler and `other.h` the TypeScript one; both are
\* given the same lines at the same times. `body` is the list of lines to come.
RenditionLines ==
  {EntryOf(payload) : payload \in {<<"{content:", "a", "}">>, <<"{content:", "a">>, <<"}">>,
                                   <<"{tool0:", "a", "}">>, <<"{usage:2}">>, Sentinel}}
RenditionLists == UNION {[1..n -> RenditionLines] : n \in 0..MaxFrames}

ReadLineBoth ==
  /\ pc = "reading"
  /\ other.pc = "reading"
  /\ body # <<>>
  /\ \E dt \in Waits(h) :
       LET line == Head(body)
           step(js, ts) ==
             /\ h' = js
             /\ pc' = AfterLine(js)
             /\ other' = [h |-> ts, body |-> Append(other.body, line),
                          pc |-> AfterLine(ts), interleaved |-> FALSE]
       IN step(processLine(Elapse(h, dt), line), processLineTS(Elapse(other.h, dt), line))
  /\ body' = Tail(body)
  /\ UNCHANGED v8

SpecRenditions == InitRequests(RenditionLists, {NewRequest(<<>>)}) /\ [][ReadLineBoth]_vars

\* ------------------------------------------------------------ properties
Range(f) == {f[i] : i \in DOMAIN f}
Positions(name) == {i \in 1..Len(h.out) : h.out[i].event = name}
Occurrences(name) == Cardinality(Positions(name))
StartsOf(index) == {i \in Positions("content_block_start") : h.out[i].index = index}
StopsOf(index) == {i \in Positions("content_block_stop") : h.out[i].index = index}
BlockEvents == {"content_block_start", "content_block_delta", "content_block_stop"}
BlockIndexes == {0, 1}
SentinelProcessed == FINALIZING \in Range(h.stateLog)

\* C1: when the sentinel was processed and the request has returned, the frames
\* written are message_start, ping, content-block events, one message_delta and
\* one message_stop, in this order: message_start first, message_stop last.
C1_FixedFrameOrder ==
  (pc = "returned" /\ SentinelProcessed) =>
    LET n == Len(h.out) IN
    /\ n >= 4
    /\ h.out[1].event = "message_start"
    /\ h.out[2].event = "ping"
    /\ \A i \in 3..(n - 2) : h.out[i].event \in BlockEvents
    /\ h.out[n - 1].event = "message_delta"
    /\ h.out[n].event = "message_stop"

\* C2: every processed sentinel triggers exactly one message_delta and one
\* message_stop, and a request never emits more than one message_stop.
C2_OneMessageStop ==
  /\ Occurrences("message_stop") <= 1
  /\ SentinelProcessed =>
       Occurrences("message_delta") = 1 /\ Occurrences("message_stop") = 1

\* C3: content_block_start is emitted at most once for any block index.
C3_OneStartPerIndex == \A index \in BlockIndexes : Cardinality(StartsOf(index)) <= 1

\* C4: when finalization emits message_delta, every block index that was started
\* before it has received exactly one content_block_stop.
C4_EveryBlockStopped ==
  Positions("message_delta") # {} =>
    LET d == Min(Positions("message_delta")) IN
    \A index \in BlockIndexes :
      (\E i \in StartsOf(index) : i < d) =>
        Cardinality({i \in StopsOf(index) : i < d}) = 1

\* the input_json_delta texts emitted for a tool-call index, in order
RECURSIVE DeltasFor(_, _)
DeltasFor(events, index) ==
  IF events = <<>> THEN <<>>
  ELSE (IF Head(events).type = "input_json_delta" /\ Head(events).index = index
        THEN <<Head(events).text>> ELSE <<>>) \o DeltasFor(Tail(events), index)

\* for a sequence of received argument strings: the suffix of each beyond the
\* length emitted so far, where there is one
RECURSIVE Suffixes(_, _)
Suffixes(received, emitted) ==
  IF received = <<>> THEN <<>>
  ELSE IF Len(Head(received)) > emitted
       THEN <<SubSeq(Head(received), emitted + 1, Len(Head(received)))>>
            \o Suffixes(Tail(received), Len(Head(received)))
       ELSE Suffixes(Tail(received), emitted)

IsPrefix(a, b) == Len(a) <= Len(b) /\ SubSeq(b, 1, Len(a)) = a
Cumulative(received) == \A k \in 1..(Len(received) - 1) : IsPrefix(received[k], received[k + 1])

\* C5: the deltas emitted for a tool-call index are the suffixes of the received
\* argument strings beyond the length already emitted, and for cumulative
\* argument strings their concatenation is the last string received.
C5_ToolDeltasAreSuffixes ==
  \A index \in ToolIndexes :
    LET received == h.argsSeen[index]
        deltas == DeltasFor(h.out, index)
    IN /\ deltas = Suffixes(received, 0)
       /\ (received # <<>> /\ Cumulative(received)) =>
            Concat(deltas) = received[Len(received)]

C5_Witness ==
  \E index \in ToolIndexes :
    /\ Len(DeltasFor(h.out, index)) >= 2
    /\ Len(h.argsSeen[index]) >= 2
    /\ Cumulative(h.argsSeen[index])

\* the k-th message_delta of the request
RECURSIVE SelectEvents(_, _)
SelectEvents(events, name) ==
  IF events = <<>> THEN <<>>
  ELSE (IF Head(events).event = name THEN <<Head(events)>> ELSE <<>>)
       \o SelectEvents(Tail(events), name)

MessageDeltas == SelectEvents(h.out, "message_delta")

\* C6 as stated: stop_reason is tool_use iff a delta with a tool_calls field
\* was processed before the sentinel, else end_turn.
C6_StopReasonByToolCallsField ==
  \A k \in 1..Len(MessageDeltas) :
    /\ MessageDeltas[k].type \in {"tool_use", "end_turn"}
    /\ MessageDeltas[k].type = "tool_use" <=> h.finalLog[k].toolCallsDeltas > 0

\* C6 amended: stop_reason is tool_use iff at least one tool-call fragment (an
\* element of a tool_calls array) was processed before the sentinel, else
\* end_turn; a delta whose tool_calls array is empty does not count.
C6_StopReasonByFragments ==
  \A k \in 1..Len(MessageDeltas) :
    /\ MessageDeltas[k].type \in {"tool_use", "end_turn"}
    /\ MessageDeltas[k].type = "tool_use" <=> h.finalLog[k].fragments > 0

C6_Witness ==
  \E k \in 1..Len(MessageDeltas) :
    /\ h.finalLog[k].toolCallsDeltas > 0
    /\ h.finalLog[k].fragments = 0
    /\ MessageDeltas[k].type = "end_turn"

\* the events of the request when the whole body arrives as a single chunk
SingleChunkRun(bytes) ==
  LET read(r) == IF r.pc = "reading" THEN afterLoop(r.h) ELSE r
  IN read(loopBody(NewHandler(1), bytes))

\* a body of complete lines, the last of which is the only sentinel
WellFormed(bytes) ==
  /\ Len(bytes) >= Len(Done)
  /\ SubSeq(bytes, Len(bytes) - Len(Done) + 1, Len(bytes)) = Done
  /\ Cardinality({i \in 1..Len(bytes) : bytes[i] = "[DONE]"}) = 1

\* C7: however a well-formed body is cut into chunks, the events emitted are
\* those emitted when it is delivered as a single chunk.
C7_ChunkBoundaryInvariance ==
  (pc # "reading" /\ WellFormed(h.bytesRead \o body)) =>
    h.out = SingleChunkRun(h.bytesRead \o body).h.out

RECURSIVE JoinLines(_)
JoinLines(lines) ==
  IF lines = <<>> THEN <<>> ELSE Head(lines) \o <<"\n">> \o JoinLines(Tail(lines))

\* C8: the lines returned by extractCompleteLines, each followed by the line
\* terminator, and then the fragment still held (or the fragment drained by
\* getRemainingLineBuffer) reconstruct the concatenation of the chunks.
C8_LinesReconstructInput ==
  JoinLines(h.linesReturned) \o (IF h.drains = 0 THEN h.lineBuffer ELSE h.drained) = h.fed

C8_Witness ==
  /\ h.drains = 1
  /\ Len(h.linesReturned) >= 2
  /\ h.drained # <<>>
  /\ h.lineBuffer = <<>>

\* C9: once the state is Completed or Error, no later assignment changes it.
C9_TerminalStatesAreFinal ==
  \A k \in 1..(Len(h.stateLog) - 1) :
    h.stateLog[k] \in {COMPLETED, ERROR} => h.stateLog[k + 1] = h.stateLog[k]

\* C10: startStreaming succeeds at most once per request, so writeHead is called
\* at most once and message_start and ping are written at most once.
C10_PreambleAtMostOnce ==
  /\ Cardinality({k \in 1..Len(h.stateLog) : h.stateLog[k] = STREAMING}) <= 1
  /\ h.writeHeadCalls <= 1
  /\ Occurrences("message_start") <= 1
  /\ Occurrences("ping") <= 1

C10_Witness ==
  /\ Occurrences("message_start") = 1
  /\ h.writeHeadCalls = 1
  /\ Occurrences("content_block_delta") >= 2

\* the payloads handled by processDataEntry that are equal to the sentinel
SentinelArrivals == {k \in 1..Len(h.entryLog) : h.entryLog[k].payload = Sentinel}
Entries(state) == {k \in 1..Len(h.stateLog) : h.stateLog[k] = state}

\* C11: the state becomes Finalizing once for every payload equal to the
\* sentinel that processDataEntry handles and never otherwise; when the body
\* ends without such a payload the state never becomes Finalizing or Completed
\* and no content_block_stop, message_delta or message_stop is written.
C11_FinalizationOnlyOnSentinel ==
  /\ Cardinality(Entries(FINALIZING)) = Cardinality(SentinelArrivals)
  /\ SentinelArrivals = {} =>
       /\ Entries(COMPLETED) = {}
       /\ Occurrences("content_block_stop") = 0
       /\ Occurrences("message_delta") = 0
       /\ Occurrences("message_stop") = 0

C11_Witness ==
  /\ pc = "returned"
  /\ body = <<>>
  /\ SentinelArrivals = {}
  /\ Occurrences("content_block_delta") >= 1
  /\ h.state = STREAMING
  /\ h.endCalls = 1

\* C12: when the request has failed after the response headers were sent, an
\* error frame has been written to the client.
C12_ErrorFrameAfterHeaders ==
  (pc = "settled" /\ Throws(h) /\ h.headersSent) => Occurrences("error") >= 1

\* C13: a failed request gets at most one HTTP error response (status code and
\* JSON error body), and gets it only if nothing of a streaming response was
\* sent: no writeHead, no frame, no end; never both an error frame and an HTTP
\* error response.
C13_HttpErrorOnlyBeforeHeaders ==
  /\ h.errorResponses <= 1
  /\ h.errorResponses > 0 =>
       /\ Throws(h)
       /\ h.writeHeadCalls = 0
       /\ h.out = <<>>
       /\ h.endCalls = 0
  /\ (pc = "settled" /\ Throws(h) /\ h.errorResponses = 0) => h.headersSent

C13_Witness ==
  /\ pc = "settled"
  /\ h.thrown.type = "streaming_parse_error"
  /\ h.errorResponses = 1
  /\ h.statusCode = 500
  /\ ~h.headersSent

\* the arrivals whose payload was parsed on its own and carries an error field
ErrorArrivals ==
  {k \in 1..Len(h.entryLog) :
     /\ ~h.entryLog[k].isBuffering
     /\ JSONparse(h.entryLog[k].payload).ok
     /\ JSONparse(h.entryLog[k].payload).val.error # "none"}

\* C14: a parsed payload with an error field is fatal whatever its message: it
\* is the last payload processed, handleStreamingResponse has thrown, the state
\* is Error and nothing was written for or after that payload.
C14_BackendErrorIsFatal ==
  \A k \in ErrorArrivals :
    /\ k = Len(h.entryLog)
    /\ pc \in {"thrown", "settled"}
    /\ Throws(h)
    /\ h.state = ERROR
    /\ Len(h.out) = h.entryLog[k].written

\* the failure of JSON.parse(data) is a truncation signature: an unterminated
\* string, an unexpected end of input, or an unexpected token that is the last
\* character of the payload (JSONparse reports "Unexpected token" for the first
\* character of the text)
IsTruncationFailure(data) ==
  /\ ~JSONparse(data).ok
  /\ \/ JSONparse(data).err \in {"Unterminated string", "Unexpected end of JSON input"}
     \/ JSONparse(data).err = "Unexpected token" /\ Len(trim(data)) = 1

\* C15: recovery buffering is started only by a payload whose direct parse
\* failed with a truncation signature; every other failure raised while a
\* directly parsed payload is handled is fatal at once: the state is Error and
\* the recovery buffer is inactive.
C15_OnlyTruncationStartsBuffering ==
  /\ \A k \in 1..Len(h.seeds) : IsTruncationFailure(h.seeds[k].data)
  /\ h.thrown.type = "streaming_parse_error" =>
       (h.state = ERROR /\ ~h.isBuffering /\ h.jsonBuffer = <<>>)

\* the beginning of a delta payload that is cut short inside its string
IsCutShort(data) ==
  /\ data # <<>>
  /\ Head(data) \in OpenAtoms
  /\ \A i \in 2..Len(data) : IsTextChar(data[i])

\* C16: while the recovery buffer holds a payload that is still cut short, the
\* retry does not fail the request: recovery goes on until the buffer parses
\* or a guard trips, so a payload that arrives in three pieces is recovered.
C16_RecoveryRetriedUntilParsed ==
  h.thrown.type = "buffered_streaming_parse_error" => ~IsCutShort(h.thrown.buffer)

\* C17: what is held in the recovery buffer is never dropped silently: when
\* handleStreamingResponse has ended without an error the buffer is empty (its
\* content was parsed and forwarded), and when it has ended with an error while
\* the buffer holds content, the error context carries that content.
C17_BufferNeverDropped ==
  /\ (pc # "reading" /\ ~Throws(h)) => h.jsonBuffer = <<>>
  /\ (pc # "reading" /\ Throws(h) /\ h.jsonBuffer # <<>>) =>
       ("jsonBufferContent" \in h.thrown.keys /\ h.thrown.buffer = h.jsonBuffer)

\* C18: whenever the handler goes on reading, the recovery buffer holds at
\* most maxBufferSize characters, whether it was seeded or appended to; an
\* overflow fails the request with the buffered content in the error context.
C18_BufferWithinMaximum ==
  /\ pc = "reading" => JsLength(h.jsonBuffer) <= maxBufferSize
  /\ h.thrown.type = "json_buffer_overflow" =>
       /\ h.state = ERROR
       /\ "jsonBufferContent" \in h.thrown.keys
       /\ h.thrown.buffer = h.jsonBuffer

\* the payloads other than the sentinel that arrived while the recovery buffer
\* was active and older than bufferTimeoutMs
TimedOutArrivals ==
  {k \in 1..Len(h.entryLog) :
     /\ h.entryLog[k].isBuffering
     /\ h.entryLog[k].payload # Sentinel
     /\ h.entryLog[k].age > bufferTimeoutMs}

\* C19: a payload other than the sentinel that finds the recovery buffer active
\* and older than the maximum age fails the request with the timeout error:
\* the state is Error, the error context carries the buffer as it was, the
\* payload is neither appended nor parsed and nothing is written; and the
\* timeout error is raised in no other case.
C19_AgeGuard ==
  /\ \A k \in TimedOutArrivals :
       /\ k = Len(h.entryLog)
       /\ pc \in {"thrown", "settled"}
       /\ h.thrown.type = "json_buffer_timeout"
       /\ h.state = ERROR
       /\ "jsonBufferContent" \in h.thrown.keys
       /\ h.thrown.buffer = h.entryLog[k].jsonBuffer
       /\ h.jsonBuffer = h.entryLog[k].jsonBuffer
       /\ Len(h.out) = h.entryLog[k].written
  /\ h.thrown.type = "json_buffer_timeout" => Len(h.entryLog) \in TimedOutArrivals

C19_Witness ==
  /\ pc = "thrown"
  /\ h.thrown.type = "json_buffer_timeout"
  /\ h.thrown.buffer = <<"{content:", "a">>
  /\ h.entryLog[Len(h.entryLog)].payload = <<"}">>
  /\ h.entryLog[Len(h.entryLog)].age = bufferTimeoutMs + 1

\* C20: once a write to the client has failed, the loop reads no further chunk
\* from the backend body.
C20_NoReadAfterFailedWrite == ~h.readAfterFailedWrite

Max(S) == CHOOSE x \in S : \A y \in S : x >= y
\* the k-th smallest element of a set of numbers
Nth(S, k) == CHOOSE x \in S : Cardinality({y \in S : y < x}) = k - 1

\* the arrivals before arrival k whose payload, parsed on its own, is a usage
\* object with a completion-token count
UsageArrivalsBefore(k) ==
  {j \in 1..(k - 1) :
     /\ ~h.entryLog[j].isBuffering
     /\ JSONparse(h.entryLog[j].payload).ok
     /\ JSONparse(h.entryLog[j].payload).val.usage # -1}

\* C21: when a usage object with a completion-token count (0 included) was seen
\* before the sentinel, the output_tokens of message_delta is the count of the
\* last such object.
C21_ReportedCountIsUsed ==
  \A k \in 1..Len(MessageDeltas) :
    LET reports == UsageArrivalsBefore(Nth(SentinelArrivals, k)) IN
    reports # {} =>
      MessageDeltas[k].tokens = JSONparse(h.entryLog[Max(reports)].payload).val.usage

\* the object a backend line "data: <json>" carries, NoPayload for any other line
LinePayload(line) ==
  LET trimmed == trim(line)
      parsed(r) == IF r.ok THEN r.val ELSE NoPayload
  IN IF startsWithData(trimmed)
     THEN parsed(JSONparse(TrimLeft(SubSeq(trimmed, 6, Len(trimmed)))))
     ELSE NoPayload

\* the lines the request has processed: those cut at line terminators and the
\* final fragment
LinesProcessed == h.linesReturned \o (IF h.drains = 0 THEN <<>> ELSE <<h.drained>>)

TextDeltas == {k \in 1..Len(h.out) : h.out[k].type \in {"text_delta", "thinking_delta"}}

\* C22: the text of every text_delta (thinking_delta) written is, character for
\* character, the content (reasoning) string of one of the backend lines
\* processed, and it is written at index 0.
C22_DeltaTextIsLineText ==
  \A k \in TextDeltas :
    /\ h.out[k].index = 0
    /\ \E i \in 1..Len(LinesProcessed) :
         h.out[k].text = (IF h.out[k].type = "text_delta"
                          THEN LinePayload(LinesProcessed[i]).content
                          ELSE LinePayload(LinesProcessed[i]).reasoning)

\* C23: no payload is handled by processDataEntry and no event is written
\* after reply.raw.end() was called.
C23_NothingAfterClose ==
  /\ h.writesAfterEnd = 0
  /\ \A k \in 1..Len(h.entryLog) : ~h.entryLog[k].ended

\* C24: a request that returns without an exception has called reply.raw.end()
\* exactly once.
C24_ClosedExactlyOnce == pc = "returned" => h.endCalls = 1

\* the recovery buffer as arrival k leaves it: as the next arrival finds it, or
\* as it is now
BufferAfter(k) ==
  IF k < Len(h.entryLog)
  THEN [isBuffering |-> h.entryLog[k + 1].isBuffering, jsonBuffer |-> h.entryLog[k + 1].jsonBuffer]
  ELSE [isBuffering |-> h.isBuffering, jsonBuffer |-> h.jsonBuffer]

\* the payloads other than the sentinel that arrive while recovery is active
\* and not timed out
BufferedArrivals ==
  {k \in 1..Len(h.entryLog) :
     /\ h.entryLog[k].isBuffering
     /\ h.entryLog[k].payload # Sentinel
     /\ h.entryLog[k].age <= bufferTimeoutMs}

C26_RequestsAreIsolated ==
  LET same(mine, alone) ==
        /\ mine.out = alone.out
        /\ mine.state = alone.state
        /\ mine.endCalls = alone.endCalls
        /\ mine.toolCallAccumulators = alone.toolCallAccumulators
        /\ mine.accumulatedContent = alone.accumulatedContent
        /\ mine.accumulatedReasoning = alone.accumulatedReasoning
  IN /\ pc # "reading" => same(h, SingleChunkRun(h.bytesRead \o body).h)
     /\ other.pc \notin {"reading", "none"} =>
          same(other.h, SingleChunkRun(other.h.bytesRead \o other.body).h)

C26_Witness ==
  /\ pc = "returned"
  /\ other.pc = "returned"
  /\ other.interleaved
  /\ Occurrences("message_stop") = 1
  /\ other.h.toolCallAccumulators # <<>>
  /\ other.h.state = COMPLETED

\* the payload text of a backend line "data: <payload>"
LineData(line) ==
  LET trimmed == trim(line) IN
  IF startsWithData(trimmed) THEN TrimLeft(SubSeq(trimmed, 6, Len(trimmed))) ELSE <<>>

IsContentLine(line) ==
  LET p == LinePayload(line) IN
  /\ p.hasDelta /\ p.content # <<>> /\ p.reasoning = <<>> /\ ~p.hasToolCalls
  /\ p.usage = -1 /\ p.error = "none"

IsUsageLine(line) ==
  LET p == LinePayload(line) IN p.usage # -1 /\ ~p.hasDelta /\ p.error = "none"

\* n >= 1 content lines, then usage lines, then the sentinel line
HappyPath(lines, n) ==
  /\ n >= 1 /\ n < Len(lines)
  /\ \A i \in 1..n : IsContentLine(lines[i])
  /\ \A i \in (n + 1)..(Len(lines) - 1) : IsUsageLine(lines[i])
  /\ LineData(lines[Len(lines)]) = Sentinel

ExpectedEvents(lines, n, outputTokens) ==
  <<Event("message_start", -1, "message", <<>>, 0),
    Event("ping", -1, "ping", <<>>, 0),
    Event("content_block_start", 0, "text", <<>>, 0)>>
  \o [i \in 1..n |-> Event("content_block_delta", 0, "text_delta", LinePayload(lines[i]).content, 0)]
  \o <<Event("content_block_stop", 0, "none", <<>>, 0),
       Event("message_delta", -1, "end_turn", <<>>, outputTokens),
       Event("message_stop", -1, "none", <<>>, 0)>>

\* C27: when the whole body is n >= 1 lines with non-empty content, then lines
\* carrying only usage, then the sentinel line, the events written are exactly
\* message_start, ping, content_block_start(0, text), one text_delta per
\* content line in order, content_block_stop(0), message_delta(end_turn, the
\* completion tokens last reported), message_stop.
C27_HappyPathEvents ==
  \A n \in 1..Len(h.linesReturned) :
    (/\ pc # "reading"
     /\ body = <<>>
     /\ h.bytesRead = JoinLines(h.linesReturned)
     /\ HappyPath(h.linesReturned, n)) =>
      LET lines == h.linesReturned
          reported == IF n + 1 < Len(lines)
                      THEN LinePayload(lines[Len(lines) - 1]).usage
                      ELSE h.out[Len(h.out) - 1].tokens
      IN h.out = ExpectedEvents(lines, n, reported)

\* C28: in every step of a request, every tool-call index that has an
\* accumulated argument string keeps one, and its length does not decrease.
C28_ArgumentLengthNeverDecreases ==
  [][\A idx \in DOMAIN h.toolCallAccumulators :
       /\ idx \in DOMAIN h'.toolCallAccumulators
       /\ Len(h'.toolCallAccumulators[idx]) >= Len(h.toolCallAccumulators[idx])]_vars

\* a fragment without arguments has arrived after a longer argument string,
\* which is still stored
C28_Witness ==
  \E idx \in DOMAIN h.toolCallAccumulators :
    \E k \in 2..Len(h.argsSeen[idx]) :
      /\ h.argsSeen[idx][k] = <<>>
      /\ Len(h.argsSeen[idx][k - 1]) = 2
      /\ h.toolCallAccumulators[idx] = h.argsSeen[idx][k - 1]

\* the edges of the session state machine
StateEdges ==
  {<<INITIALIZING, STREAMING>>, <<STREAMING, FINALIZING>>, <<FINALIZING, COMPLETED>>,
   <<INITIALIZING, ERROR>>, <<STREAMING, ERROR>>, <<FINALIZING, ERROR>>}

\* C29: every assignment that changes the session state follows one of the
\* edges Initializing -> Streaming, Streaming -> Finalizing, Finalizing ->
\* Completed, or non-terminal state -> Error.
C29_StateFollowsEdges ==
  \A k \in 1..(Len(h.stateLog) - 1) :
    h.stateLog[k + 1] # h.stateLog[k] => <<h.stateLog[k], h.stateLog[k + 1]>> \in StateEdges

\* the numbers of a set in ascending order
RECURSIVE Ascending(_)
Ascending(S) == IF S = {} THEN <<>> ELSE <<Min(S)>> \o Ascending(S \ {Min(S)})

\* the events written by the k-th finalization before its message_delta
StopsWritten(k) ==
  SubSeq(h.out, h.finalLog[k].written + 1, Nth(Positions("message_delta"), k) - 1)

\* whether a text block start was written before the k-th finalization
TextOpenedBefore(k) ==
  \E i \in 1..h.finalLog[k].written :
    h.out[i].event = "content_block_start" /\ h.out[i].type = "text"

\* C30: the k-th finalization writes, before message_delta, only
\* content_block_stop events: one for each tool-call index seen, in ascending
\* order, if any tool-call fragment was processed; otherwise one for index 0 if
\* the text block was opened; otherwise none.
C30_StopsAtFinalization ==
  \A k \in 1..Len(MessageDeltas) :
    LET stops == StopsWritten(k)
        expected == IF h.finalLog[k].indexes # {} THEN Ascending(h.finalLog[k].indexes)
                    ELSE IF TextOpenedBefore(k) THEN <<0>>
                    ELSE <<>>
    IN /\ \A i \in 1..Len(stops) : stops[i].event = "content_block_stop"
       /\ [i \in 1..Len(stops) |-> stops[i].index] = expected

\* index 1 was seen before index 0, and the stops are written for 0, then 1
C30_Witness ==
  /\ Len(MessageDeltas) = 1
  /\ h.finalLog[1].indexes = {0, 1}
  /\ \E i \in StartsOf(1), j \in StartsOf(0) : i < j
  /\ Len(StopsWritten(1)) = 2
  /\ StopsWritten(1)[1].index = 0

\* the number of whitespace-separated tokens of a string
WordCount(str) ==
  Cardinality({i \in 1..Len(str) :
                 /\ ~IsWhitespace(str[i])
                 /\ (i = 1 \/ IsWhitespace(str[i - 1]))})

\* C31: when no completion-token count is held at finalization, the
\* output_tokens of message_delta is the number of whitespace-separated tokens
\* of the accumulated answer text followed by the accumulated reasoning text.
C31_EstimateCountsTokens ==
  \A k \in 1..Len(MessageDeltas) :
    h.finalLog[k].usage = -1 =>
      MessageDeltas[k].tokens = WordCount(h.finalLog[k].content \o h.finalLog[k].reasoning)

\* what a handler has written and holds, without the history
Core(s) ==
  [out |-> s.out, state |-> s.state, isSucceeded |-> s.isSucceeded,
   jsonBuffer |-> s.jsonBuffer, isBuffering |-> s.isBuffering,
   bufferStartTime |-> s.bufferStartTime,
   textBlockStarted |-> s.textBlockStarted, encounteredToolCall |-> s.encounteredToolCall,
   toolCallAccumulators |-> s.toolCallAccumulators,
   accumulatedContent |-> s.accumulatedContent,
   accumulatedReasoning |-> s.accumulatedReasoning,
   usage |-> s.usage, endCalls |-> s.endCalls, thrown |-> s.thrown, ret |-> s.ret]

\* C32: the handler given entries coalesced into one line has written the same
\* events and holds the same state, buffers and accumulators as the handler
\* given the same entries as separate lines, and both stop at the same entry.
C32_CoalescedLineIsSeparateLines ==
  /\ Core(h) = Core(other.h)
  /\ pc = other.pc

\* a line of three entries, the second completing the first and the third the
\* sentinel, has been processed
C32_Witness ==
  /\ EntryOf(<<"{content:", "a">>) \o EntryOf(<<"}">>) \o EntryOf(Sentinel) \in Range(other.body)
  /\ h.state = COMPLETED
  /\ Occurrences("content_block_delta") = 1
  /\ pc = "stopped"

\* the arrival that started the recovery which arrival k finds active
SeedOf(k) == Max({j \in 1..(k - 1) : ~h.entryLog[j].isBuffering})

\* the payloads from arrival j up to, not including, arrival k, the sentinels
\* left out, one after the other
RECURSIVE PayloadsBetween(_, _)
PayloadsBetween(j, k) ==
  IF j >= k THEN <<>>
  ELSE (IF h.entryLog[j].payload = Sentinel THEN <<>> ELSE h.entryLog[j].payload)
       \o PayloadsBetween(j + 1, k)

\* the events arrival k has written
WrittenBy(k) ==
  SubSeq(h.out, h.entryLog[k].written + 1,
         IF k < Len(h.entryLog) THEN h.entryLog[k + 1].written ELSE Len(h.out))

\* C33: a payload that finds recovery active finds in the buffer the payload
\* whose parse failed followed by the later payloads other than the sentinel,
\* in order and with nothing in between, and so does the end of the request
\* unless the last payload timed out.  When the buffer with the arriving
\* payload is within the maximum size and parses, the object is forwarded once (one delta with its text), the
\* buffer is cleared and the next payload is parsed directly.
C33_BufferIsSeedThenPayloads ==
  /\ \A k \in 1..Len(h.entryLog) :
       h.entryLog[k].isBuffering =>
         h.entryLog[k].jsonBuffer = PayloadsBetween(SeedOf(k), k)
  /\ (h.isBuffering /\ h.thrown.type # "json_buffer_timeout") =>
       h.jsonBuffer = PayloadsBetween(SeedOf(Len(h.entryLog) + 1), Len(h.entryLog) + 1)
  /\ \A k \in BufferedArrivals :
       LET joined == h.entryLog[k].jsonBuffer \o h.entryLog[k].payload
           parsed == JSONparse(joined)
           deltas == SelectEvents(WrittenBy(k), "content_block_delta")
       IN (JsLength(joined) <= maxBufferSize /\ parsed.ok /\ parsed.val.content # <<>>) =>
            /\ Len(deltas) = 1
            /\ deltas[1].text = parsed.val.content
            /\ ~BufferAfter(k).isBuffering /\ BufferAfter(k).jsonBuffer = <<>>

DeltasOf(index) == {i \in Positions("content_block_delta") : h.out[i].index = index}

\* C34: for every block index, a content_block_start is written before every
\* content_block_delta of that index, and no content_block_start or
\* content_block_delta of that index is written after its content_block_stop.
C34_BlockLifecycle ==
  \A index \in BlockIndexes :
    /\ \A d \in DeltasOf(index) : \E b \in StartsOf(index) : b < d
    /\ \A e \in StopsOf(index) : \A i \in StartsOf(index) \cup DeltasOf(index) : i < e

\* C35: when an error is propagated out of handleStreamingResponse, the state
\* is Error and the context of the error holds the accumulated answer and
\* reasoning text, the tool-call argument state and the state-machine state.
C35_ErrorCarriesSnapshot ==
  pc = "thrown" =>
    /\ h.state = ERROR
    /\ {"accumulatedContent", "accumulatedReasoning", "toolCalls", "state"} \subseteq h.thrown.keys
    /\ h.thrown.state = ERROR

\* C36: the handler given every line has written the same events and holds
\* the same state, recovery buffer and accumulators as the handler that was
\* not given the lines without a data: entry, and goes on to the next line
\* as that one does.
C36_NoDataLineChangesNothing ==
  /\ Core(h) = Core(other.h)
  /\ pc = other.pc

\* a continuation without prefix and an event: line arrived while recovery
\* was active, and the next data: entry completed the payload
C36_Witness ==
  /\ Len(other.body) = 3
  /\ other.body[1] = EntryOf(<<"{content:", "a">>)
  /\ other.body[2] \in NoDataLines \ {<<>>}
  /\ other.body[3] = EntryOf(<<"}">>)
  /\ Occurrences("content_block_delta") = 1
  /\ ~h.isBuffering

\* C37: no event is written before reply.raw.writeHead(200, ...) has written
\* the headers of the event stream.
C37_HeadersBeforeEvents == ~h.wroteBeforeHeaders

\* C38: a request that has settled after its response headers were sent has
\* called reply.raw.end().  Every request settles once its reads are resolved,
\* and no step of the request follows the settling, so a transport that is not
\* closed by then is never closed.
C38_ClosedWhenSettled == (pc = "settled" /\ h.headersSent) => h.endCalls > 0

\* the channel of a delta: the first of tool_calls, content and reasoning that
\* is present and not empty
ChannelOf(p) ==
  IF p.tool_calls # <<>> THEN "input_json_delta"
  ELSE IF p.content # <<>> THEN "text_delta"
  ELSE IF p.reasoning # <<>> THEN "thinking_delta"
  ELSE "none"

\* the payloads that were parsed directly and forwarded as a delta
DeltaArrivals ==
  {k \in 1..Len(h.entryLog) :
     /\ ~h.entryLog[k].isBuffering
     /\ JSONparse(h.entryLog[k].payload).ok
     /\ JSONparse(h.entryLog[k].payload).val.hasDelta
     /\ (k = Len(h.entryLog) => ~Throws(h))}

RECURSIVE TextOfChannel(_, _)
TextOfChannel(k, channel) ==
  IF k = 0 THEN <<>>
  ELSE TextOfChannel(k - 1, channel)
       \o (IF k \in DeltaArrivals /\ ChannelOf(JSONparse(h.entryLog[k].payload).val) = channel
           THEN (IF channel = "text_delta" THEN JSONparse(h.entryLog[k].payload).val.content
                 ELSE JSONparse(h.entryLog[k].payload).val.reasoning)
           ELSE <<>>)

\* C39: a delta writes content_block_delta events of one type only, that of
\* the first of tool_calls, content and reasoning that is present and not
\* empty, and exactly one of them when that is content or reasoning; the
\* accumulated answer and reasoning texts are those of the deltas whose
\* channel they were.
C39_OneChannelPerDelta ==
  /\ \A k \in DeltaArrivals :
       LET channel == ChannelOf(JSONparse(h.entryLog[k].payload).val)
           deltas == SelectEvents(WrittenBy(k), "content_block_delta")
       IN /\ \A i \in 1..Len(deltas) : deltas[i].type = channel
          /\ channel \in {"text_delta", "thinking_delta"} => Len(deltas) = 1
  /\ h.accumulatedContent = TextOfChannel(Len(h.entryLog), "text_delta")
  /\ h.accumulatedReasoning = TextOfChannel(Len(h.entryLog), "thinking_delta")

\* ------------------------------------------------------------------ C40
\* C40: given the same lines at the same times, the JavaScript and the
\* TypeScript handler have written the same events and their state managers
\* are in the same state, after every line.
C40_RenditionsAgree ==
  /\ h.out = other.h.out
  /\ h.state = other.h.state

====
